---- MODULE Spec2Model ----
(***************************************************************************)
(* A model of http_parsing/extractor.py: the CountingFeatureExtractor      *)
(* class, the module-level loader and extraction functions, and the batch  *)
(* loop of the __main__ block.                                             *)
(*                                                                         *)
(* Python values are represented as follows.                               *)
(*   - an optional value is a sequence of length at most one: None is <<>> *)
(*     and a present value v is <<v>>;                                     *)
(*   - a str is a sequence of one-character strings, except names, xpath   *)
(*     expressions and match modes, which are only compared and are TLA+   *)
(*     strings;                                                            *)
(*   - a criteria dict is the sequence of its entries in insertion order,  *)
(*     each entry holding its key (name) and the criterion's items; an     *)
(*     item whose key is absent from the criterion is None;                *)
(*   - a feature row is a function from its keys to tagged values.         *)
(***************************************************************************)
EXTENDS Integers, Sequences, FiniteSets, TLC

VARIABLES
    default_meta_features,        \* the list object of __init__'s default argument
    constructed,                  \* [Insts -> BOOLEAN]: the variable is bound to an extractor
    meta_features,                \* [Insts -> [ref, own]]: self._meta_features
    extracted_feature_criteria,   \* [Insts -> dict]: self._extracted_feature_criteria
    extracted_content_criteria,   \* [Insts -> dict]: self._extracted_content_criteria
    feature_counts,               \* [Insts -> Seq(row)]: self.feature_counts
    call,                         \* the last call: method, exception raised, value returned
    pc,                           \* position of the __main__ block
    data,                         \* __main__: the list directory_walker returned
    page,                         \* __main__: number of entries of data the loop has consumed
    skipped                       \* __main__: the skip counter

vars == <<default_meta_features, constructed, meta_features,
          extracted_feature_criteria, extracted_content_criteria,
          feature_counts, call, pc, data, page, skipped>>

extractorVars == <<default_meta_features, constructed, meta_features,
                   extracted_feature_criteria, extracted_content_criteria,
                   feature_counts>>

driverVars == <<pc, data, page, skipped>>

----------------------------------------------------------------------------
(* Bounds and input sets *)

MaxRows == 2        \* accumulate calls per extractor
MaxElems == 2       \* elements per parsed document
MaxEntries == 2     \* entries of a configuration's features_to_count list
MaxDocs == 3        \* documents the directory walk finds
MaxMeta == 1        \* names in a meta-feature list given to the constructor

Insts == {"A", "B"}

None == <<>>
Some(v) == <<v>>

Names == {"n1", "n2"}
XPaths == {"//a"}
Modes == {"match", "search", "fuzzy"}
Patterns == {<<"x">>}
Tags == {"a", "b"}
Texts == {None, Some(<<"x">>), Some(<<"y", "x">>)}
MetaValue == <<"u">>

SeqsUpTo(S, n) == UNION {[1..k -> S] : k \in 0..n}

Elements == [tag : Tags, text : Texts]
Trees == SeqsUpTo(Elements, MaxElems)
\* a document source: one the parser accepts (recovering where it can), or one
\* it rejects with XMLSyntaxError
Sources == [parses : {TRUE}, tree : Trees] \cup [parses : {FALSE}, tree : {<<>>}]

----------------------------------------------------------------------------
(* Values *)

IntVal(n) == [kind |-> "int", i |-> n, s |-> <<>>]
StrVal(s) == [kind |-> "str", i |-> 0, s |-> s]

NoExc == ""

_custom_str(value) == IF value = None THEN <<>> ELSE value[1]

\* re.match with a literal pattern: the text starts with the pattern
re_match(pattern, string) ==
    /\ Len(pattern) <= Len(string)
    /\ SubSeq(string, 1, Len(pattern)) = pattern

\* re.search with a literal pattern: the pattern occurs somewhere in the text
re_search(pattern, string) ==
    \E k \in 0..(Len(string) - Len(pattern)) :
        SubSeq(string, k + 1, k + Len(pattern)) = pattern

\* html_tree.xpath("//tag"): the elements with that tag, in document order
xpath(html_tree, expr) ==
    SelectSeq(html_tree, LAMBDA e : expr = "//" \o e.tag)

----------------------------------------------------------------------------
(* Criteria dicts *)

HasKey(d, name) == \E k \in 1..Len(d) : d[k].name = name
Keys(d) == [k \in 1..Len(d) |-> d[k].name]
KeySet(d) == {d[k].name : k \in 1..Len(d)}

put_feature_criterion(feature_criteria, name, xp, re_mode, re_pattern) ==
    LET item == [name |-> name, xpath |-> xp,
                 text_re_mode |-> re_mode, text_re_pattern |-> re_pattern]
    IN  IF HasKey(feature_criteria, name)
        THEN [k \in 1..Len(feature_criteria) |->
                 IF feature_criteria[k].name = name THEN item ELSE feature_criteria[k]]
        ELSE Append(feature_criteria, item)

----------------------------------------------------------------------------
(* _validate_new_feature: the exception it raises, NoExc when it returns *)

_validate_new_feature(self, name, xp, text_re_mode, text_re_pattern) ==
    IF HasKey(extracted_feature_criteria[self], name)
          \/ extracted_content_criteria[self] # <<>>
    THEN "ValueError"
    ELSE IF xp = None
    THEN "ValueError"
    ELSE IF (text_re_mode = None /\ text_re_pattern # None)
              \/ (text_re_mode # None /\ text_re_pattern = None)
    THEN "ValueError"
    ELSE IF text_re_mode # None /\ text_re_mode[1] \notin {"match", "search"}
    THEN "ValueError"
    ELSE NoExc

----------------------------------------------------------------------------
(* load_feature_criteria *)

\* one pass of a "for feature in rubric[...]" loop from entry k on; an entry
\* without "xpath" raises KeyError before it is put, the entries before it stay
RECURSIVE LoadLoop(_, _, _, _)
LoadLoop(criteria, entries, k, with_text_filter) ==
    IF k > Len(entries)
    THEN [exc |-> NoExc, criteria |-> criteria]
    ELSE IF entries[k].xpath = None
    THEN [exc |-> "KeyError", criteria |-> criteria]
    ELSE LoadLoop(
            put_feature_criterion(
                criteria,
                entries[k].name,
                entries[k].xpath[1],
                IF with_text_filter THEN entries[k].text_re_mode ELSE None,
                IF with_text_filter THEN entries[k].text_re_pattern ELSE None),
            entries, k + 1, with_text_filter)

load_feature_criteria(rubric, feature_criteria, extracted_content) ==
    LET counted == LoadLoop(feature_criteria, rubric.features_to_count, 1, TRUE)
        texts == LoadLoop(extracted_content, rubric.text_to_extract, 1, FALSE)
    IN  IF counted.exc # NoExc
        THEN [exc |-> counted.exc,
              feature_criteria |-> counted.criteria,
              extracted_content |-> extracted_content]
        ELSE [exc |-> texts.exc,
              feature_criteria |-> counted.criteria,
              extracted_content |-> texts.criteria]

----------------------------------------------------------------------------
(* extract_features_from_tree and its callers *)

DictSet(d, key, value) ==
    [x \in (DOMAIN d) \cup {key} |-> IF x = key THEN value ELSE d[x]]

EmptyDict == [x \in {} |-> IntVal(0)]

\* the value the first loop stores for one count criterion, or the exception
\* of its else branch (the "%" of line 155 is given one argument for two "%s")
CountFeature(feature, html_tree) ==
    LET elements == xpath(html_tree, feature.xpath)
    IN  IF feature.text_re_mode # None /\ feature.text_re_pattern # None
        THEN IF feature.text_re_mode[1] = "match"
             THEN [exc |-> NoExc,
                   value |-> IntVal(Len(SelectSeq(elements, LAMBDA e :
                       re_match(feature.text_re_pattern[1], _custom_str(e.text)))))]
             ELSE IF feature.text_re_mode[1] = "search"
             THEN [exc |-> NoExc,
                   value |-> IntVal(Len(SelectSeq(elements, LAMBDA e :
                       re_search(feature.text_re_pattern[1], _custom_str(e.text)))))]
             ELSE [exc |-> "TypeError", value |-> IntVal(0)]
        ELSE [exc |-> NoExc, value |-> IntVal(Len(elements))]

RECURSIVE ConcatText(_, _)
ConcatText(elements, k) ==
    IF k > Len(elements) THEN <<>>
    ELSE _custom_str(elements[k].text) \o ConcatText(elements, k + 1)

ContentFeature(feature, html_tree) ==
    StrVal(ConcatText(xpath(html_tree, feature.xpath), 1))

RECURSIVE CountLoop(_, _, _, _)
CountLoop(feature_criteria, k, html_tree, row) ==
    IF k > Len(feature_criteria)
    THEN [exc |-> NoExc, data |-> row]
    ELSE LET r == CountFeature(feature_criteria[k], html_tree)
         IN  IF r.exc # NoExc
             THEN [exc |-> r.exc, data |-> row]
             ELSE CountLoop(feature_criteria, k + 1, html_tree,
                            DictSet(row, feature_criteria[k].name, r.value))

RECURSIVE ContentLoop(_, _, _, _)
ContentLoop(content_criteria, k, html_tree, row) ==
    IF k > Len(content_criteria)
    THEN row
    ELSE ContentLoop(content_criteria, k + 1, html_tree,
                     DictSet(row, content_criteria[k].name,
                             ContentFeature(content_criteria[k], html_tree)))

extract_features_from_tree(feature_criteria, content_criteria, html_tree) ==
    LET counted == CountLoop(feature_criteria, 1, html_tree, EmptyDict)
    IN  IF counted.exc # NoExc
        THEN counted
        ELSE [exc |-> NoExc,
              data |-> ContentLoop(content_criteria, 1, html_tree, counted.data)]

\* etree.parse with HTMLParser(recover=True), then the tree extraction
extract_features_from_file(feature_criteria, content_criteria, source_file) ==
    IF ~source_file.parses
    THEN [exc |-> "XMLSyntaxError", data |-> EmptyDict]
    ELSE extract_features_from_tree(feature_criteria, content_criteria, source_file.tree)

\* StringIO(text) / BytesIO(bytes_string) hand the same document to the parser
extract_features_from_string(feature_criteria, content_criteria, text) ==
    extract_features_from_file(feature_criteria, content_criteria, text)

extract_features_from_bytes(feature_criteria, content_criteria, bytes_string) ==
    extract_features_from_file(feature_criteria, content_criteria, bytes_string)

----------------------------------------------------------------------------
(* The class CountingFeatureExtractor.  Each operation sets the extractor's *)
(* fields and records the call's outcome; it leaves the variables of  *)
(* the __main__ block to its caller.                                        *)

NoneType == [type |-> "NoneType", value |-> <<>>]

Called(op, exc, ret) == [op |-> op, exc |-> exc, ret |-> ret]

\* the list object self._meta_features refers to
MetaList(self) ==
    IF meta_features[self].ref = "default"
    THEN default_meta_features
    ELSE meta_features[self].own

\* extractor = CountingFeatureExtractor(config_file_path, meta_features): when
\* __init__ raises, the variable keeps what it was bound to
Construct(self, config_file_path, meta_arg) ==
    LET loaded == IF config_file_path = None
                  THEN [exc |-> NoExc, feature_criteria |-> <<>>,
                        extracted_content |-> <<>>]
                  ELSE load_feature_criteria(config_file_path[1], <<>>, <<>>)
    IN  /\ call' = Called("__init__", loaded.exc, NoneType)
        /\ IF loaded.exc # NoExc
           THEN UNCHANGED extractorVars
           ELSE /\ constructed' = [constructed EXCEPT ![self] = TRUE]
                /\ extracted_feature_criteria' =
                       [extracted_feature_criteria EXCEPT ![self] = loaded.feature_criteria]
                /\ extracted_content_criteria' =
                       [extracted_content_criteria EXCEPT ![self] = loaded.extracted_content]
                /\ meta_features' = [meta_features EXCEPT ![self] =
                       IF meta_arg = None
                       THEN [ref |-> "default", own |-> <<>>]
                       ELSE [ref |-> "own", own |-> meta_arg[1]]]
                /\ feature_counts' = [feature_counts EXCEPT ![self] = <<>>]
                /\ UNCHANGED default_meta_features

load_extracted_features(self, rubric) ==
    LET loaded == load_feature_criteria(rubric,
                                        extracted_feature_criteria[self],
                                        extracted_content_criteria[self])
    IN  /\ constructed[self]
        /\ call' = Called("load_extracted_features", loaded.exc, NoneType)
        /\ extracted_feature_criteria' =
               [extracted_feature_criteria EXCEPT ![self] = loaded.feature_criteria]
        /\ extracted_content_criteria' =
               [extracted_content_criteria EXCEPT ![self] = loaded.extracted_content]
        /\ UNCHANGED <<default_meta_features, constructed, meta_features, feature_counts>>

add_meta_feature(self, name) ==
    LET present == \E k \in 1..Len(MetaList(self)) : MetaList(self)[k] = name
    IN  /\ constructed[self]
        /\ call' = Called("add_meta_feature", NoExc, NoneType)
        /\ IF present
           THEN UNCHANGED <<default_meta_features, meta_features>>
           ELSE IF meta_features[self].ref = "default"
           THEN /\ default_meta_features' = Append(default_meta_features, name)
                /\ UNCHANGED meta_features
           ELSE /\ meta_features' = [meta_features EXCEPT ![self].own = Append(@, name)]
                /\ UNCHANGED default_meta_features
        /\ UNCHANGED <<constructed, extracted_feature_criteria,
                       extracted_content_criteria, feature_counts>>

add_extracted_content(self, name, xp) ==
    LET exc == _validate_new_feature(self, name, xp, None, None)
    IN  /\ constructed[self]
        /\ call' = Called("add_extracted_content", exc, NoneType)
        /\ IF exc # NoExc
           THEN UNCHANGED extracted_feature_criteria
           ELSE extracted_feature_criteria' = [extracted_feature_criteria EXCEPT ![self] =
                    put_feature_criterion(@, name, xp[1], None, None)]
        /\ UNCHANGED <<default_meta_features, constructed, meta_features,
                       extracted_content_criteria, feature_counts>>

add_extracted_feature(self, name, xp, text_re_mode, text_re_pattern) ==
    LET exc == _validate_new_feature(self, name, xp, text_re_mode, text_re_pattern)
    IN  /\ constructed[self]
        /\ call' = Called("add_extracted_feature", exc, NoneType)
        /\ IF exc # NoExc
           THEN UNCHANGED extracted_feature_criteria
           ELSE extracted_feature_criteria' = [extracted_feature_criteria EXCEPT ![self] =
                    put_feature_criterion(@, name, xp[1], text_re_mode, text_re_pattern)]
        /\ UNCHANGED <<default_meta_features, constructed, meta_features,
                       extracted_content_criteria, feature_counts>>

all_feature_names(self) ==
    MetaList(self) \o Keys(extracted_feature_criteria[self])
                   \o Keys(extracted_content_criteria[self])

\* _append_features: the row with the call's meta features merged in; meta is
\* the dict given, here the set of its keys, each with the same value
RECURSIVE MergeMeta(_, _)
MergeMeta(extracted_features, meta) ==
    IF meta = {} THEN extracted_features
    ELSE LET meta_feature_name == CHOOSE n \in meta : TRUE
         IN  MergeMeta(DictSet(extracted_features, meta_feature_name, StrVal(MetaValue)),
                       meta \ {meta_feature_name})

_append_features(self, extracted_features, meta) ==
    feature_counts' = [feature_counts EXCEPT ![self] =
                           Append(@, MergeMeta(extracted_features, meta))]

\* the three accumulate methods: op names the method and extracted is the
\* outcome of its extract_features_from_* call; only the string form has a
\* return statement
Accumulate(op, self, meta, extracted) ==
    /\ constructed[self]
    /\ IF extracted.exc # NoExc
       THEN /\ UNCHANGED feature_counts
            /\ call' = Called(op, extracted.exc, NoneType)
       ELSE /\ _append_features(self, extracted.data, meta)
            /\ call' = Called(op, NoExc,
                              IF op = "accumulate_features_from_string"
                              THEN [type |-> "list", value |-> feature_counts'[self]]
                              ELSE NoneType)
    /\ UNCHANGED <<default_meta_features, constructed, meta_features,
                   extracted_feature_criteria, extracted_content_criteria>>

accumulate_features_from_string(self, text, meta) ==
    Accumulate("accumulate_features_from_string", self, meta,
               extract_features_from_string(extracted_feature_criteria[self],
                                            extracted_content_criteria[self], text))

accumulate_features_from_bytes(self, byte_string, meta) ==
    Accumulate("accumulate_features_from_bytes", self, meta,
               extract_features_from_bytes(extracted_feature_criteria[self],
                                           extracted_content_criteria[self], byte_string))

accumulate_features_from_file(self, source_file, meta) ==
    Accumulate("accumulate_features_from_file", self, meta,
               extract_features_from_file(extracted_feature_criteria[self],
                                          extracted_content_criteria[self], source_file))

----------------------------------------------------------------------------
(* Inputs of the calls *)

MetaNames == {"n1", "url"}
MetaLists == SeqsUpTo({"n1"}, MaxMeta)
MetaArgs == {None} \cup {Some(l) : l \in MetaLists}
MetaDicts == SUBSET MetaNames

OptXPaths == {None} \cup {Some(x) : x \in XPaths}
OptModes == {None} \cup {Some(m) : m \in Modes}
OptPatterns == {None} \cup {Some(p) : p \in Patterns}

\* entries of a configuration document; a None item is a key the entry lacks.
\* The text filters of the entries: none, a full one, one with an unknown mode
\* and one without its pattern; one entry lacks its xpath.
EntryFilters == {<<None, None>>, <<Some("search"), Some(<<"x">>)>>,
                 <<Some("fuzzy"), Some(<<"x">>)>>, <<Some("match"), None>>}
CountEntries ==
    {[name |-> n, xpath |-> Some(x), text_re_mode |-> f[1], text_re_pattern |-> f[2]] :
        n \in {"n1"}, x \in XPaths, f \in EntryFilters}
    \cup {[name |-> "n1", xpath |-> None, text_re_mode |-> None, text_re_pattern |-> None]}
ContentEntries == [name : Names, xpath : {Some(x) : x \in XPaths}]
RubricsOf(count_entries, content_entries) ==
    [features_to_count : SeqsUpTo(count_entries, MaxEntries),
     text_to_extract : SeqsUpTo(content_entries, 1)]
Opt(S) == {None} \cup {Some(x) : x \in S}

----------------------------------------------------------------------------
(* Calls on the extractors of a program that uses the class as a library *)

Idle == Called("", NoExc, NoneType)

InitExtractors ==
    /\ default_meta_features = <<>>
    /\ constructed = [i \in Insts |-> FALSE]
    /\ meta_features = [i \in Insts |-> [ref |-> "own", own |-> <<>>]]
    /\ extracted_feature_criteria = [i \in Insts |-> <<>>]
    /\ extracted_content_criteria = [i \in Insts |-> <<>>]
    /\ feature_counts = [i \in Insts |-> <<>>]
    /\ call = Idle

Init ==
    /\ InitExtractors
    /\ pc = "library"
    /\ data = <<>>
    /\ page = 0
    /\ skipped = 0

DoConstruct(selves, rubrics, meta_args) ==
    /\ \E self \in selves, r \in Opt(rubrics), m \in meta_args : Construct(self, r, m)
    /\ UNCHANGED driverVars

DoLoad(selves, rubrics) ==
    /\ \E self \in selves, r \in rubrics : load_extracted_features(self, r)
    /\ UNCHANGED driverVars

DoAddMeta(selves, names) ==
    /\ \E self \in selves, n \in names : add_meta_feature(self, n)
    /\ UNCHANGED driverVars

DoAddContent(selves, names, xpaths) ==
    /\ \E self \in selves, n \in names, x \in xpaths :
           add_extracted_content(self, n, x)
    /\ UNCHANGED driverVars

DoAddFeature(selves, names, xpaths, modes, patterns) ==
    /\ \E self \in selves, n \in names, x \in xpaths, m \in modes, p \in patterns :
           add_extracted_feature(self, n, x, m, p)
    /\ UNCHANGED driverVars

DoAccumulateString(selves, sources, meta_dicts) ==
    /\ \E self \in selves, s \in sources, m \in meta_dicts :
           /\ Len(feature_counts[self]) < MaxRows
           /\ accumulate_features_from_string(self, s, m)
    /\ UNCHANGED driverVars

DoAccumulateBytes(selves, sources, meta_dicts) ==
    /\ \E self \in selves, s \in sources, m \in meta_dicts :
           /\ Len(feature_counts[self]) < MaxRows
           /\ accumulate_features_from_bytes(self, s, m)
    /\ UNCHANGED driverVars

DoAccumulateFile(selves, sources, meta_dicts) ==
    /\ \E self \in selves, s \in sources, m \in meta_dicts :
           /\ Len(feature_counts[self]) < MaxRows
           /\ accumulate_features_from_file(self, s, m)
    /\ UNCHANGED driverVars

(* Setting up the criteria of one extractor: every form of entry and of     *)
(* registration argument.                                                   *)
CriteriaRubrics == RubricsOf(CountEntries, ContentEntries)

NextCriteria ==
    \/ DoConstruct({"A"}, {}, MetaArgs)
    \/ DoLoad({"A"}, CriteriaRubrics)
    \/ DoAddMeta({"A"}, MetaNames)
    \/ DoAddContent({"A"}, Names, OptXPaths)
    \/ DoAddFeature({"A"}, Names, OptXPaths, OptModes, OptPatterns)

SpecCriteria == Init /\ [][NextCriteria]_vars

(* Accumulating rows with one extractor: the three input forms, with and   *)
(* without meta features, over criteria that were loaded or registered.     *)
AccumulateRubrics ==
    RubricsOf({e \in CountEntries : e.xpath # None /\ e.text_re_mode \in {None, Some("fuzzy")}},
              {e \in ContentEntries : e.name = "n1"})
AccumulateSources ==
    {s \in Sources : \A k \in 1..Len(s.tree) : s.tree[k].tag = "b" => s.tree[k].text = None}

NextAccumulate ==
    \/ DoConstruct({"A"}, AccumulateRubrics, {None})
    \/ DoAddContent({"A"}, Names, Opt(XPaths) \ {None})
    \/ DoAddFeature({"A"}, Names, Opt(XPaths) \ {None},
                    {None, Some("match"), Some("search")}, OptPatterns)
    \/ DoAccumulateString({"A"}, AccumulateSources, MetaDicts)
    \/ DoAccumulateBytes({"A"}, AccumulateSources, MetaDicts)
    \/ DoAccumulateFile({"A"}, AccumulateSources, MetaDicts)

SpecAccumulate == Init /\ [][NextAccumulate]_vars

(* Two extractor variables in one program.                                  *)
InstanceRubrics ==
    RubricsOf({e \in CountEntries : e.xpath # None /\ e.text_re_mode = None}, {})
InstanceSources == {s \in Sources : s.tree = <<>>}

NextInstances ==
    \/ DoConstruct(Insts, {}, MetaArgs)
    \/ DoLoad(Insts, InstanceRubrics)
    \/ DoAddMeta(Insts, {"url"})
    \/ DoAddFeature(Insts, {"n1"}, OptXPaths, {None}, {None})
    \/ DoAccumulateString(Insts, InstanceSources, {{}})

SpecInstances == Init /\ [][NextInstances]_vars

----------------------------------------------------------------------------
(* The __main__ block: the batch over the documents of ./data *)

MainMeta == {"requested_url", "response_url"}
MainSources == {s \in Sources : Len(s.tree) <= 1 /\ \A k \in 1..Len(s.tree) :
                                    s.tree[k] = [tag |-> "a", text |-> Some(<<"x">>)]}
MainRubrics ==
    RubricsOf({e \in CountEntries : e.text_re_mode # None => e.text_re_pattern # None},
              ContentEntries)

\* data is what directory_walker will return for the directory's documents
InitMain ==
    /\ InitExtractors
    /\ pc = "start"
    /\ data \in SeqsUpTo(MainSources, MaxDocs)
    /\ page = 0
    /\ skipped = 0

\* lines 244-285: the extractor is built from ./config/features.json
MainSetup ==
    /\ pc = "start"
    /\ \E r \in MainRubrics :
           Construct("A", Some(r), Some(<<"requested_url", "response_url">>))
    /\ pc' = IF call'.exc # NoExc THEN "crashed" ELSE "loop"
    /\ UNCHANGED <<data, page, skipped>>

\* MainStep with the skip counter left alone in the except clause
MainStepSkipNotCounted ==
    /\ pc = "loop"
    /\ page < Len(data)
    /\ accumulate_features_from_file("A", data[page + 1], MainMeta)
    /\ IF call'.exc \in {NoExc, "XMLSyntaxError"}
       THEN /\ page' = page + 1
            /\ UNCHANGED <<pc, skipped>>
       ELSE /\ pc' = "crashed"
            /\ UNCHANGED <<page, skipped>>
    /\ UNCHANGED data

\* one iteration of "for page_data in data": only etree.XMLSyntaxError is caught
MainStep ==
    /\ pc = "loop"
    /\ page < Len(data)
    /\ accumulate_features_from_file("A", data[page + 1], MainMeta)
    /\ IF call'.exc = NoExc
       THEN /\ page' = page + 1
            /\ UNCHANGED <<pc, skipped>>
       ELSE IF call'.exc = "XMLSyntaxError"
       THEN /\ skipped' = skipped + 1
            /\ page' = page + 1
            /\ UNCHANGED pc
       ELSE /\ pc' = "crashed"
            /\ UNCHANGED <<page, skipped>>
    /\ UNCHANGED data

\* lines 300-302: the loop is over, the summary is printed and the rows written
MainFinish ==
    /\ pc = "loop"
    /\ page = Len(data)
    /\ pc' = "done"
    /\ UNCHANGED <<extractorVars, call, data, page, skipped>>

NextMain ==
    \/ MainSetup
    \/ MainStep
    \/ MainFinish

SpecMain == InitMain /\ [][NextMain]_vars

----------------------------------------------------------------------------
(* Vocabulary of the properties *)

CriterionNames(self) ==
    KeySet(extracted_feature_criteria[self]) \cup KeySet(extracted_content_criteria[self])

AccumulateAny(self, source, meta) ==
    \/ accumulate_features_from_string(self, source, meta)
    \/ accumulate_features_from_bytes(self, source, meta)
    \/ accumulate_features_from_file(self, source, meta)

NoDuplicates(seq) == \A j, k \in 1..Len(seq) : seq[j] = seq[k] => j = k

TextOf(element) == IF element.text = None THEN <<>> ELSE element.text[1]

StartsWith(text, pattern) == \E k \in 0..Len(text) : SubSeq(text, 1, k) = pattern

Contains(text, pattern) ==
    \E j \in 1..(Len(text) + 1), k \in 0..Len(text) : SubSeq(text, j, k) = pattern

\* the positions of the elements an xpath of the form //tag selects
Matched(tree, xp) == {k \in 1..Len(tree) : xp = "//" \o tree[k].tag}

\* the texts of the selected elements, joined in document order
RECURSIVE JoinedText(_, _, _)
JoinedText(tree, xp, n) ==
    IF n = 0 THEN <<>>
    ELSE JoinedText(tree, xp, n - 1) \o (IF n \in Matched(tree, xp) THEN TextOf(tree[n]) ELSE <<>>)

\* the count a count criterion stands for
ExpectedCount(criterion, tree) ==
    IF criterion.text_re_mode = None /\ criterion.text_re_pattern = None
    THEN Cardinality(Matched(tree, criterion.xpath))
    ELSE IF criterion.text_re_mode = Some("search")
    THEN Cardinality({k \in Matched(tree, criterion.xpath) :
                         Contains(TextOf(tree[k]), criterion.text_re_pattern[1])})
    ELSE Cardinality({k \in Matched(tree, criterion.xpath) :
                         StartsWith(TextOf(tree[k]), criterion.text_re_pattern[1])})

----------------------------------------------------------------------------
(* C1 *)

\* C1: every successful accumulate call adds one row to the row list, and the
\* row's keys are exactly the criterion names of the criteria set together with
\* the meta-feature names given to the call, M + (number of meta features) keys
\* for a criteria set of M criteria.
C1_RowKeys ==
    [][\A s \in AccumulateSources, m \in MetaDicts :
          (AccumulateAny("A", s, m) /\ call'.exc = NoExc) =>
              LET rows == feature_counts'["A"]
                  row == rows[Len(rows)]
              IN  /\ Len(rows) = Len(feature_counts["A"]) + 1
                  /\ DOMAIN row = CriterionNames("A") \cup m
                  /\ Cardinality(DOMAIN row) =
                         Len(extracted_feature_criteria["A"])
                         + Len(extracted_content_criteria["A"]) + Cardinality(m)]_vars

----------------------------------------------------------------------------
(* C2 *)

\* what a registration of name must do, seen from the state before the call
RegistrationOutcome(self, name) ==
    LET used == name \in CriterionNames(self)
    IN  /\ (call'.exc # NoExc) <=> used
        /\ ~used => name \in CriterionNames(self)'
        /\ used => UNCHANGED <<extracted_feature_criteria, extracted_content_criteria>>

\* C2: a registration with otherwise valid arguments fails exactly when its name
\* is already a criterion name of the count or the content partition; a new name
\* is added, and a failed call leaves both partitions unchanged.
C2_RegistrationFailsIffNameUsed ==
    [][\A n \in Names, x \in XPaths, m \in OptModes, p \in OptPatterns :
          ((m = None <=> p = None) /\ (m # None => m[1] \in {"match", "search"})) =>
              /\ add_extracted_feature("A", n, Some(x), m, p) => RegistrationOutcome("A", n)
              /\ add_extracted_content("A", n, Some(x)) => RegistrationOutcome("A", n)]_vars

----------------------------------------------------------------------------
(* C3 *)

EntryNames(rubric) ==
    [k \in 1..Len(rubric.features_to_count) |-> rubric.features_to_count[k].name]
    \o [k \in 1..Len(rubric.text_to_extract) |-> rubric.text_to_extract[k].name]

\* two entries of the document share a name, or an entry has the name of a
\* criterion the extractor already holds
SharesName(self, rubric) ==
    \/ ~NoDuplicates(EntryNames(rubric))
    \/ \E k \in 1..Len(EntryNames(rubric)) : EntryNames(rubric)[k] \in CriterionNames(self)

\* C3: loading a configuration document in which two entries share a name, or an
\* entry has the name of a criterion already present in either partition, fails
\* with an error at load time.
C3_LoadRejectsSharedNames ==
    [][\A r \in CriteriaRubrics :
          (load_extracted_features("A", r) /\ SharesName("A", r)) =>
              call'.exc # NoExc]_vars

----------------------------------------------------------------------------
(* C4 *)

WellFormedFilter(criterion) ==
    /\ criterion.text_re_mode = None <=> criterion.text_re_pattern = None
    /\ criterion.text_re_mode # None => criterion.text_re_mode[1] \in {"match", "search"}

\* C4: every criterion of the criteria set, loaded or registered, has both
\* text_re_mode and text_re_pattern or neither, and a mode that is present is
\* 'match' or 'search'.
C4_FiltersWellFormed ==
    /\ \A k \in 1..Len(extracted_feature_criteria["A"]) :
           WellFormedFilter(extracted_feature_criteria["A"][k])
    /\ \A k \in 1..Len(extracted_content_criteria["A"]) :
           WellFormedFilter(extracted_content_criteria["A"][k])

----------------------------------------------------------------------------
(* C5 *)

\* what extract yields under name, for every document, in the state after a step
YieldsJoinedText(self, name, xp) ==
    \A t \in Trees :
        LET r == extract_features_from_tree(extracted_feature_criteria'[self],
                                            extracted_content_criteria'[self], t)
        IN  /\ r.exc = NoExc
            /\ name \in DOMAIN r.data
            /\ r.data[name] = StrVal(JoinedText(t, xp, Len(t)))

\* C5: once a content criterion is registered with add_extracted_content, or
\* loaded from text_to_extract, extract yields under its name the texts of the
\* elements its xpath matches, joined in document order: a string, not a count.
C5_ContentIsJoinedText ==
    [][/\ \A n \in Names, x \in XPaths :
             (add_extracted_content("A", n, Some(x)) /\ call'.exc = NoExc) =>
                 YieldsJoinedText("A", n, x)
       /\ \A r \in AccumulateRubrics :
             (Construct("A", Some(r), None) /\ call'.exc = NoExc
                  /\ \A k \in 1..Len(r.features_to_count) :
                         WellFormedFilter(r.features_to_count[k])) =>
                 \A k \in 1..Len(extracted_content_criteria'["A"]) :
                     YieldsJoinedText("A", extracted_content_criteria'["A"][k].name,
                                      extracted_content_criteria'["A"][k].xpath)]_vars

----------------------------------------------------------------------------
(* C6 *)

\* C6: in the row of a successful accumulate call, the value of every count
\* criterion is the number of elements its xpath matches, or, with a text filter,
\* the number of those whose text contains the pattern ('search') or starts with
\* it ('match'), the text of an element without text being the empty string.
C6_CountIsMatchedElements ==
    [][\A s \in AccumulateSources, m \in MetaDicts :
          (AccumulateAny("A", s, m) /\ call'.exc = NoExc) =>
              LET rows == feature_counts'["A"]
                  row == rows[Len(rows)]
              IN  \A k \in 1..Len(extracted_feature_criteria["A"]) :
                      LET criterion == extracted_feature_criteria["A"][k]
                      IN  (WellFormedFilter(criterion) /\ criterion.name \notin m) =>
                              /\ criterion.name \in DOMAIN row
                              /\ row[criterion.name] =
                                     IntVal(ExpectedCount(criterion, s.tree))]_vars

----------------------------------------------------------------------------
(* C7 *)

\* C7: feature_names() is the meta-feature names in declaration order, then the
\* count-criterion names, then the content-criterion names, and no name occurs
\* in it twice.
C7_FeatureNamesOrderedAndDistinct ==
    constructed["A"] =>
        LET names == all_feature_names("A")
            metas == Len(MetaList("A"))
            counts == Len(extracted_feature_criteria["A"])
        IN  /\ Len(names) = metas + counts + Len(extracted_content_criteria["A"])
            /\ \A k \in 1..Len(names) :
                   names[k] = IF k <= metas THEN MetaList("A")[k]
                              ELSE IF k <= metas + counts
                              THEN extracted_feature_criteria["A"][k - metas].name
                              ELSE extracted_content_criteria["A"][k - metas - counts].name
            /\ NoDuplicates(names)

----------------------------------------------------------------------------
(* C8 *)

\* C8: in each of its three forms a successful accumulate call appends exactly
\* one row to the row list, leaves the earlier rows as they were, and returns
\* the row it appended.
C8_AccumulateAppendsAndReturnsRow ==
    [][\A s \in AccumulateSources, m \in MetaDicts :
          (AccumulateAny("A", s, m) /\ call'.exc = NoExc) =>
              LET rows == feature_counts'["A"]
              IN  /\ Len(rows) = Len(feature_counts["A"]) + 1
                  /\ SubSeq(rows, 1, Len(rows) - 1) = feature_counts["A"]
                  /\ call'.ret = [type |-> "dict", value |-> rows[Len(rows)]]]_vars

----------------------------------------------------------------------------
(* C9 *)

\* some method of the extractor self is called
CallOn(self) ==
    \/ \E n \in MetaNames : add_meta_feature(self, n)
    \/ \E n \in Names, x \in OptXPaths : add_extracted_feature(self, n, x, None, None)
    \/ \E r \in InstanceRubrics : load_extracted_features(self, r)
    \/ \E s \in InstanceSources : accumulate_features_from_string(self, s, {})

\* the collections of the extractor self
Collections(self) ==
    <<all_feature_names(self), extracted_feature_criteria[self],
      extracted_content_criteria[self], feature_counts[self]>>

\* C9: with two extractors created with default arguments, no call on one
\* changes the feature names, the criteria partitions or the row list of the
\* other, and an extractor created with default arguments starts with empty
\* meta-feature, criteria and row collections.
C9_ExtractorsShareNothing ==
    [][/\ \A self \in Insts, other \in Insts :
             (self # other /\ constructed[self] /\ constructed[other]
                  /\ meta_features[self].ref = "default"
                  /\ meta_features[other].ref = "default" /\ CallOn(self)) =>
                 Collections(other)' = Collections(other)
       /\ \A self \in Insts :
             (Construct(self, None, None) /\ call'.exc = NoExc) =>
                 Collections(self)' = <<<<>>, <<>>, <<>>, <<>>>>]_vars

----------------------------------------------------------------------------
(* C10 *)

\* C10: in the batch loop a document whose parse fails is skipped and the batch
\* goes on: no row is added for it, the skip counter grows by one and the loop
\* moves to the next document; when the batch has ended, the rows accumulated
\* and the skip counter add up to the number of documents found.
C10_ParseFailureIsSkipped ==
    /\ [][(pc = "loop" /\ page < Len(data) /\ ~data[page + 1].parses) =>
             /\ feature_counts' = feature_counts
             /\ skipped' = skipped + 1
             /\ page' = page + 1
             /\ pc' = "loop"]_vars
    /\ [](pc = "done" =>
             /\ page = Len(data)
             /\ Len(feature_counts["A"]) + skipped = Len(data))

\* a batch that ended after a document that failed to parse was followed by one
\* that was accumulated
C10_Witness ==
    /\ pc = "done"
    /\ skipped > 0
    /\ \E j, k \in 1..Len(data) : j < k /\ ~data[j].parses /\ data[k].parses
    /\ Len(feature_counts["A"]) + skipped = Len(data)

====
